---- MODULE Spec2Model ----
(***************************************************************************)
(* Mesh smoothing of the sculpt tools                                      *)
(* (source/blender/editors/sculpt_paint/sculpt_smooth.c).                  *)
(*                                                                         *)
(* Floats are fixed-point integers.  Factors (strength, fade, mask, alpha, *)
(* beta) count in units of 1/Unit, so Unit stands for 1.0f; positions and  *)
(* colours are integer vectors on their own grid.  A product with a factor *)
(* and a quotient by a neighbour count are rounded down to the grid.       *)
(***************************************************************************)
EXTENDS Integers, Sequences, FiniteSets, TLC

VARIABLES
  ss,      \* SculptSession: co, mask, color, topology, pbvh type, pmap, cache
  nodes,   \* PBVHNode **nodes: node n -> the vertices of its unique-vertex iteration
  brush,   \* Brush and the brush test (location, radius), read-only
  pc,      \* position of the driving thread
  frame,   \* arguments and locals of the running orchestrator
  tasks,   \* the node tasks of the dispatch in progress
  hist     \* history: what was dispatched, run and written

vars == <<ss, nodes, brush, pc, frame, tasks, hist>>

(***************************************************************************)
(* Bounds and program constants.                                           *)
(***************************************************************************)
NumVerts == 4
Sub == 2

max_iterations == 4

Unit == max_iterations * Sub

Verts == 0 .. (NumVerts - 1)

NAN == 0 - 1000000

(***************************************************************************)
(* Float and vector helpers (BLI_math).                                    *)
(***************************************************************************)
CLAMP(x, lo, hi) == IF x < lo THEN lo ELSE IF x > hi THEN hi ELSE x

clamp_f(x, lo, hi) == CLAMP(x, lo, hi)

FMul(a, f) == (a * f) \div Unit

\* a * (1.0f / total): a division by zero gives no number.
RecipMul(a, total) == IF total = 0 THEN NAN ELSE a \div total

add_v(a, b) == [i \in DOMAIN a |-> a[i] + b[i]]

sub_v(a, b) == [i \in DOMAIN a |-> a[i] - b[i]]

mul_v_fl(a, f) == [i \in DOMAIN a |-> FMul(a[i], f)]

madd_v(a, b, f) == [i \in DOMAIN a |-> a[i] + FMul(b[i], f)]

recip_v(a, total) == [i \in DOMAIN a |-> RecipMul(a[i], total)]

len_squared_v(a) == a[1] * a[1] + a[2] * a[2] + a[3] * a[3]

zero_v3 == <<0, 0, 0>>

zero_v4 == <<0, 0, 0, 0>>

RECURSIVE SortedSeq(_)
SortedSeq(S) ==
  IF S = {} THEN <<>>
  ELSE LET m == CHOOSE x \in S : \A y \in S : x <= y
       IN <<m>> \o SortedSeq(S \ {m})

\* Sum of vals[ns[i]] over the neighbour sequence ns, from `zero`.
RECURSIVE SumOver(_, _, _)
SumOver(vals, ns, zero) ==
  IF ns = <<>> THEN zero
  ELSE add_v(SumOver(vals, SubSeq(ns, 1, Len(ns) - 1), zero), vals[ns[Len(ns)]])

RECURSIVE SumScalar(_, _)
SumScalar(vals, ns) ==
  IF ns = <<>> THEN 0
  ELSE SumScalar(vals, SubSeq(ns, 1, Len(ns) - 1)) + vals[ns[Len(ns)]]

(***************************************************************************)
(* Mesh access (sculpt.c API used by the averaging primitives).            *)
(***************************************************************************)
SCULPT_vertex_co_get(s, index) == s.co[index]

SCULPT_vertex_mask_get(s, index) == s.mask[index]

SCULPT_vertex_color_get(s, index) == s.color[index]

SCULPT_vertex_is_boundary(s, index) == index \in s.boundary

\* SCULPT_VERTEX_NEIGHBORS_ITER_BEGIN: the neighbours in iteration order.
SCULPT_vertex_neighbors(s, index) == s.neighbors[index]

SCULPT_vertex_count_get(s) == NumVerts

(***************************************************************************)
(* Averaging primitives.                                                   *)
(***************************************************************************)
\* Mutant: every neighbour enters, also around a boundary vertex.
InteriorUsedAll(s, index) == SCULPT_vertex_neighbors(s, index)

\* The neighbours that enter the interior average.
InteriorUsed(s, index) ==
  LET ns == SCULPT_vertex_neighbors(s, index)
  IN IF SCULPT_vertex_is_boundary(s, index)
     THEN SelectSeq(ns, LAMBDA w : SCULPT_vertex_is_boundary(s, w))
     ELSE ns

\* Mutant: the corner test left out.
InteriorAverageNoCorner(s, index) ==
  LET used == InteriorUsed(s, index)
  IN IF Len(used) = 0 THEN SCULPT_vertex_co_get(s, index)
     ELSE recip_v(SumOver(s.co, used, zero_v3), Len(used))

SCULPT_neighbor_coords_average_interior(s, index) ==
  LET neighbor_count == Len(SCULPT_vertex_neighbors(s, index))
      used == InteriorUsed(s, index)
      total == Len(used)
      avg == SumOver(s.co, used, zero_v3)
  IN IF neighbor_count <= 2 THEN SCULPT_vertex_co_get(s, index)
     ELSE IF total = 0 THEN SCULPT_vertex_co_get(s, index)
     ELSE recip_v(avg, total)

\* Mutant: the division without its guard.
CoordsAverageUnguarded(s, index) ==
  LET ns == SCULPT_vertex_neighbors(s, index)
  IN recip_v(SumOver(s.co, ns, zero_v3), Len(ns))

SCULPT_neighbor_coords_average(s, index) ==
  LET ns == SCULPT_vertex_neighbors(s, index)
      total == Len(ns)
      avg == SumOver(s.co, ns, zero_v3)
  IN IF total > 0 THEN recip_v(avg, total)
     ELSE SCULPT_vertex_co_get(s, index)

SCULPT_neighbor_mask_average(s, index) ==
  LET ns == SCULPT_vertex_neighbors(s, index)
      total == Len(ns)
      avg == SumScalar(s.mask, ns)
  IN IF total > 0 THEN RecipMul(avg, total)
     ELSE SCULPT_vertex_mask_get(s, index)

SCULPT_neighbor_color_average(s, index) ==
  LET ns == SCULPT_vertex_neighbors(s, index)
      total == Len(ns)
      avg == SumOver(s.color, ns, zero_v4)
  IN IF total > 0 THEN recip_v(avg, total)
     ELSE SCULPT_vertex_color_get(s, index)

(***************************************************************************)
(* Brush test and falloff (sculpt.c), read through the kernels.            *)
(***************************************************************************)
\* sculpt_brush_test_sq_fn(&test, co): test.dist, the squared distance.
BrushTestDist(br, co) == len_squared_v(sub_v(co, br.location))

SCULPT_brush_test(br, co) == BrushTestDist(br, co) <= br.radius_squared

\* SCULPT_brush_strength_factor: a factor in [0,1] from distance and mask.
SCULPT_brush_strength_factor(br, co, mask) ==
  LET falloff == IF 4 * BrushTestDist(br, co) <= br.radius_squared
                 THEN Unit ELSE Unit \div 2
  IN FMul(falloff, Unit - mask)

\* SCULPT_clip with no clipping axis set: the new position is stored.
SCULPT_clip(co, val) == val

\* vd.mask ? *vd.mask : 0.0f
MaskOrZero(s, v) == IF s.vmask THEN s.mask[v] ELSE 0

\* if (vd.mvert) vd.mvert->flag |= ME_VERT_PBVH_UPDATE;
FlagUpdate(s, v) == IF s.type = "PBVH_FACES" THEN s.update \cup {v} ELSE s.update

(***************************************************************************)
(* Kernels: one vertex of a node's unique-vertex iteration.  The result is *)
(* the session after the vertex, the vertices whose position or mask was   *)
(* stored to, and whether a NULL pointer was dereferenced.                 *)
(***************************************************************************)
Untouched(s) == [ss |-> s, touched |-> {}, fault |-> FALSE]

Fault(s) == [ss |-> s, touched |-> {}, fault |-> TRUE]

\* Mutant: the falloff alone, the iteration strength left out.
SmoothFadeFull(bstrength, factor) == factor

\* const float fade = bstrength * SCULPT_brush_strength_factor(...)
SmoothFade(bstrength, factor) == FMul(bstrength, factor)

\* Mutant: the new position is stored to the last neighbour visited.
SmoothStoreCoNeighbor(s, v, val) ==
  LET ns == SCULPT_vertex_neighbors(s, v)
      w == IF ns = <<>> THEN v ELSE ns[Len(ns)]
  IN [ss |-> [s EXCEPT !.co[w] = SCULPT_clip(s.co[w], val),
                       !.update = FlagUpdate(s, v)],
      touched |-> {w}, fault |-> FALSE]

\* SCULPT_clip(sd, ss, vd.co, val) and the update flag: the position store.
SmoothStoreCo(s, v, val) ==
  [ss |-> [s EXCEPT !.co[v] = SCULPT_clip(s.co[v], val),
                    !.update = FlagUpdate(s, v)],
   touched |-> {v}, fault |-> FALSE]

\* Mutant: the mask change applied to the position as well.
SmoothStoreMaskAndCo(s, v, val) ==
  [ss |-> [s EXCEPT !.mask[v] = CLAMP(s.mask[v] + val, 0, Unit),
                    !.co[v] = [i \in 1 .. 3 |-> s.co[v][i] + val],
                    !.update = FlagUpdate(s, v)],
   touched |-> {v}, fault |-> FALSE]

\* *vd.mask += val; CLAMP(*vd.mask, 0.0f, 1.0f) and the update flag.
SmoothStoreMask(s, v, val) ==
  [ss |-> [s EXCEPT !.mask[v] = CLAMP(s.mask[v] + val, 0, Unit),
                    !.update = FlagUpdate(s, v)],
   touched |-> {v}, fault |-> FALSE]

\* Mutant: the difference taken from the average to the vertex.
SmoothValReversed(avg, co) == sub_v(co, avg)

\* sub_v3_v3v3(val, avg, vd.co)
SmoothVal(avg, co) == sub_v(avg, co)

do_smooth_brush_vertex(s, br, data, v) ==
  LET bstrength == CLAMP(data.strength, 0, Unit)
      vd_co == s.co[v]
  IN IF ~SCULPT_brush_test(br, vd_co) THEN Untouched(s)
     ELSE
       LET fade == SmoothFade(bstrength,
                              SCULPT_brush_strength_factor(
                                br, vd_co,
                                IF data.smooth_mask THEN 0 ELSE MaskOrZero(s, v)))
       IN IF data.smooth_mask
          THEN IF ~s.vmask THEN Fault(s)
               ELSE SmoothStoreMask(
                      s, v, FMul(SCULPT_neighbor_mask_average(s, v) - s.mask[v],
                                 FMul(fade, bstrength)))
          ELSE
            LET avg == SCULPT_neighbor_coords_average_interior(s, v)
                val == SmoothVal(avg, vd_co)
            IN SmoothStoreCo(s, v, madd_v(vd_co, val, fade))

\* Mutant: the detail direction subtracted.
EnhanceDispReversed(co, direction, fade) == madd_v(co, direction, 0 - fade)

\* madd_v3_v3v3fl(disp, vd.co, ss->cache->detail_directions[vd.index], fade)
EnhanceDisp(co, direction, fade) == madd_v(co, direction, fade)

do_enhance_details_brush_vertex(s, br, data, v) ==
  LET bstrength == CLAMP(s.cache.bstrength, -Unit, Unit)
      vd_co == s.co[v]
  IN IF ~SCULPT_brush_test(br, vd_co) THEN Untouched(s)
     ELSE IF DOMAIN s.cache.detail_directions = {} THEN Fault(s)
     ELSE
       LET fade == FMul(bstrength,
                        SCULPT_brush_strength_factor(br, vd_co, MaskOrZero(s, v)))
           disp == EnhanceDisp(vd_co, s.cache.detail_directions[v], fade)
       IN [ss |-> [s EXCEPT !.co[v] = SCULPT_clip(vd_co, disp),
                            !.update = FlagUpdate(s, v)],
           touched |-> {v}, fault |-> FALSE]

(***************************************************************************)
(* HC smooth: the two steps and their kernels.                             *)
(***************************************************************************)
\* Mutant: the weights of the original and the current position exchanged.
LaplacianStepWeightsSwapped(s, co, v_index, origco, alpha) ==
  LET laplacian_smooth_co == SCULPT_neighbor_coords_average(s, v_index)
      d == add_v(mul_v_fl(origco, Unit - alpha), mul_v_fl(co, alpha))
  IN [laplacian_disp |-> sub_v(laplacian_smooth_co, d),
      disp |-> sub_v(laplacian_smooth_co, co)]

\* Mutant: the current position taken as the target d.
LaplacianStepTargetCurrent(s, co, v_index, origco, alpha) ==
  LET laplacian_smooth_co == SCULPT_neighbor_coords_average(s, v_index)
  IN [laplacian_disp |-> sub_v(laplacian_smooth_co, co),
      disp |-> sub_v(laplacian_smooth_co, co)]

\* Mutant: the entry stored before added to the new one.
LaplacianStepAccumulates(s, co, v_index, origco, alpha) ==
  LET laplacian_smooth_co == SCULPT_neighbor_coords_average(s, v_index)
      d == add_v(mul_v_fl(origco, alpha), mul_v_fl(co, Unit - alpha))
  IN [laplacian_disp |->
        add_v(s.cache.surface_smooth_laplacian_disp[v_index],
              sub_v(laplacian_smooth_co, d)),
      disp |-> sub_v(laplacian_smooth_co, co)]

\* The stored laplacian_disp[v_index] and the returned disp.
SCULPT_surface_smooth_laplacian_step(s, co, v_index, origco, alpha) ==
  LET laplacian_smooth_co == SCULPT_neighbor_coords_average(s, v_index)
      weigthed_o == mul_v_fl(origco, alpha)
      weigthed_q == mul_v_fl(co, Unit - alpha)
      d == add_v(weigthed_o, weigthed_q)
  IN [laplacian_disp |-> sub_v(laplacian_smooth_co, d),
      disp |-> sub_v(laplacian_smooth_co, co)]

\* Mutant: the weights of the vertex's own entry and of its neighbours'
\* exchanged.
DisplaceStepWeightsSwapped(s, co, laplacian_disp, v_index, beta, fade) ==
  LET ns == SCULPT_vertex_neighbors(s, v_index)
      total == Len(ns)
      b_avg == SumOver(laplacian_disp, ns, zero_v3)
  IN IF total > 0
     THEN LET b1 == [i \in DOMAIN b_avg |-> (b_avg[i] * beta) \div (Unit * total)]
              b2 == madd_v(b1, laplacian_disp[v_index], Unit - beta)
              b3 == mul_v_fl(b2, clamp_f(fade, 0, Unit))
          IN sub_v(co, b3)
     ELSE co

\* Mutant: the correction subtracted from the average of the neighbours'
\* positions.
DisplaceStepFromAverage(s, co, laplacian_disp, v_index, beta, fade) ==
  LET ns == SCULPT_vertex_neighbors(s, v_index)
      total == Len(ns)
      b_avg == SumOver(laplacian_disp, ns, zero_v3)
  IN IF total > 0
     THEN LET b1 == [i \in DOMAIN b_avg |->
                       (b_avg[i] * (Unit - beta)) \div (Unit * total)]
              b2 == madd_v(b1, laplacian_disp[v_index], beta)
              b3 == mul_v_fl(b2, clamp_f(fade, 0, Unit))
          IN sub_v(SCULPT_neighbor_coords_average(s, v_index), b3)
     ELSE co

\* The new co of v_index.
SCULPT_surface_smooth_displace_step(s, co, laplacian_disp, v_index, beta, fade) ==
  LET ns == SCULPT_vertex_neighbors(s, v_index)
      total == Len(ns)
      b_avg == SumOver(laplacian_disp, ns, zero_v3)
  IN IF total > 0
     THEN LET b1 == [i \in DOMAIN b_avg |->
                       (b_avg[i] * (Unit - beta)) \div (Unit * total)]
              b2 == madd_v(b1, laplacian_disp[v_index], beta)
              b3 == mul_v_fl(b2, clamp_f(fade, 0, Unit))
          IN sub_v(co, b3)
     ELSE co

surface_smooth_laplacian_vertex(s, br, data, v) ==
  LET bstrength == s.cache.bstrength
      alpha == br.surface_smooth_shape_preservation
      vd_co == s.co[v]
  IN IF ~SCULPT_brush_test(br, vd_co) THEN Untouched(s)
     ELSE IF DOMAIN s.cache.surface_smooth_laplacian_disp = {} THEN Fault(s)
     ELSE
       LET fade == FMul(bstrength,
                        SCULPT_brush_strength_factor(br, vd_co, MaskOrZero(s, v)))
           r == SCULPT_surface_smooth_laplacian_step(s, vd_co, v, s.orig_co[v], alpha)
       IN [ss |-> [s EXCEPT
                     !.cache.surface_smooth_laplacian_disp[v] = r.laplacian_disp,
                     !.co[v] = madd_v(vd_co, r.disp, clamp_f(fade, 0, Unit)),
                     !.update = FlagUpdate(s, v)],
           touched |-> {v}, fault |-> FALSE]

\* Mutant: the brush test left out of the displacement kernel.
DisplaceVertexUntested(s, br, data, v) ==
  LET fade == FMul(s.cache.bstrength,
                   SCULPT_brush_strength_factor(br, s.co[v], MaskOrZero(s, v)))
  IN IF DOMAIN s.cache.surface_smooth_laplacian_disp = {} THEN Fault(s)
     ELSE [ss |-> [s EXCEPT
                     !.co[v] = SCULPT_surface_smooth_displace_step(
                                 s, s.co[v], s.cache.surface_smooth_laplacian_disp,
                                 v, br.surface_smooth_current_vertex, fade)],
           touched |-> {v}, fault |-> FALSE]

surface_smooth_displace_vertex(s, br, data, v) ==
  LET bstrength == s.cache.bstrength
      beta == br.surface_smooth_current_vertex
      vd_co == s.co[v]
  IN IF ~SCULPT_brush_test(br, vd_co) THEN Untouched(s)
     ELSE IF DOMAIN s.cache.surface_smooth_laplacian_disp = {} THEN Fault(s)
     ELSE
       LET fade == FMul(bstrength,
                        SCULPT_brush_strength_factor(br, vd_co, MaskOrZero(s, v)))
       IN [ss |-> [s EXCEPT
                     !.co[v] = SCULPT_surface_smooth_displace_step(
                                 s, vd_co, s.cache.surface_smooth_laplacian_disp,
                                 v, beta, fade)],
           touched |-> {v}, fault |-> FALSE]

\* The kernel function handed to the dispatcher, applied to one vertex.
KernelVertex(kernel, s, br, data, v) ==
  CASE kernel = "do_smooth_brush_task_cb_ex" ->
         do_smooth_brush_vertex(s, br, data, v)
    [] kernel = "do_enhance_details_brush_task_cb_ex" ->
         do_enhance_details_brush_vertex(s, br, data, v)
    [] kernel = "SCULPT_do_surface_smooth_brush_laplacian_task_cb_ex" ->
         surface_smooth_laplacian_vertex(s, br, data, v)
    [] kernel = "SCULPT_do_surface_smooth_brush_displace_task_cb_ex" ->
         surface_smooth_displace_vertex(s, br, data, v)

(***************************************************************************)
(* Parallel node-task dispatcher (BLI_task_parallel_range).                *)
(***************************************************************************)
BLI_task_parallel_range(start, stop) == start .. (stop - 1)

totnode == Len(nodes)

\* nodes[n] of the C code, n from 0.
Node(n) == nodes[n + 1]

\* The state of a dispatch just issued over `range` with `kernel`.
NewTasks(range, kernel) ==
  [n \in range |-> [st |-> "pending", vi |-> 1, kernel |-> kernel]]

Dispatched(h, s, range, kernel, iter, strength) ==
  [h EXCEPT !.runs = [n \in 0 .. (totnode - 1) |-> 0],
            !.pass_in = s,
            !.writers = [v \in Verts |-> {}],
            !.started = Append(h.started, [kernel |-> kernel, iter |-> iter,
                                           strength |-> strength])]

Joined(h) ==
  [h EXCEPT !.completed = Append(h.completed, h.started[Len(h.started)]),
            !.last_runs = h.runs]

\* A worker takes node n and enters the kernel.
TaskStart(n) ==
  /\ pc = "dispatch"
  /\ n \in DOMAIN tasks
  /\ tasks[n].st = "pending"
  /\ tasks' = [tasks EXCEPT ![n].st =
                 IF Len(Node(n)) = 0 THEN "done" ELSE "running"]
  /\ hist' = [hist EXCEPT !.runs[n] = @ + 1]
  /\ UNCHANGED <<ss, nodes, brush, pc, frame>>

\* The kernel of node n handles its next vertex.
TaskStep(n) ==
  /\ pc = "dispatch"
  /\ n \in DOMAIN tasks
  /\ tasks[n].st = "running"
  /\ LET v == Node(n)[tasks[n].vi]
         r == KernelVertex(tasks[n].kernel, ss, brush, frame, v)
     IN IF r.fault
        THEN /\ pc' = "crashed"
             /\ hist' = [hist EXCEPT !.null_deref = TRUE]
             /\ UNCHANGED <<ss, tasks>>
        ELSE /\ ss' = r.ss
             /\ tasks' = [tasks EXCEPT
                            ![n].vi = @ + 1,
                            ![n].st = IF tasks[n].vi = Len(Node(n))
                                      THEN "done" ELSE "running"]
             /\ hist' = [hist EXCEPT !.writers =
                           [w \in Verts |-> IF w \in r.touched
                                            THEN @[w] \cup {n} ELSE @[w]]]
             /\ pc' = pc
  /\ UNCHANGED <<nodes, brush, frame>>

AllDone == \A n \in DOMAIN tasks : tasks[n].st = "done"

(***************************************************************************)
(* SCULPT_smooth.                                                          *)
(***************************************************************************)
NoFrame ==
  [fn |-> "none", smooth_mask |-> FALSE, arg |-> 0, bstrength |-> 0,
   count |-> 0, last |-> 0, iteration |-> 0, strength |-> 0, i |-> 0]

\* Mutant: the count rounded up.
SmoothCountCeil(bstrength) == (bstrength * max_iterations + Unit - 1) \div Unit

\* count = (int)(bstrength * max_iterations)
SmoothCount(bstrength) == (bstrength * max_iterations) \div Unit

\* last = max_iterations * (bstrength - count * fract)
SmoothLast(bstrength, count) ==
  LET fract == Unit \div max_iterations
  IN max_iterations * (bstrength - count * fract)

\* Mutant: the two arms of the conditional exchanged.
IterationStrengthSwapped(iteration, count, last) ==
  IF iteration # count THEN last ELSE Unit

\* const float strength = (iteration != count) ? 1.0f : last;
IterationStrength(iteration, count, last) ==
  IF iteration # count THEN Unit ELSE last

\* Mutant: the dispatch starts at node 1.
SmoothRangeFromOne == BLI_task_parallel_range(1, totnode)

\* The range of the dispatch in the loop of SCULPT_smooth.
SmoothRange == BLI_task_parallel_range(0, totnode)

\* Mutant: the negation dropped.
PmapMissingInverted(s) == s.type = "PBVH_FACES" /\ s.pmap

\* if (type == PBVH_FACES && !ss->pmap)
PmapMissing(s) == s.type = "PBVH_FACES" /\ ~s.pmap

\* The session after the two ensure calls of SCULPT_smooth.
SmoothEnsured(s) ==
  [s EXCEPT !.random_access = (@ \/ s.type # "PBVH_TRIMESH"),
            !.boundary_info = TRUE]

\* SCULPT_smooth from its entry to its first dispatch or its early return,
\* called on session s with history h.
SCULPT_smooth(s, h, arg, smooth_mask) ==
  LET bstrength == CLAMP(arg, 0, Unit)
      count == SmoothCount(bstrength)
      last == SmoothLast(bstrength, count)
      fr == [NoFrame EXCEPT !.fn = "SCULPT_smooth", !.smooth_mask = smooth_mask,
                            !.arg = arg, !.bstrength = bstrength,
                            !.count = count, !.last = last, !.iteration = 0,
                            !.strength = IterationStrength(0, count, last)]
      h1 == [h EXCEPT !.calls = Append(@, "SCULPT_smooth")]
  IN /\ frame' = fr
     /\ IF PmapMissing(s)
        THEN /\ ss' = s
             /\ hist' = [h1 EXCEPT !.asserted = TRUE]
             /\ pc' = "done"
             /\ tasks' = <<>>
        ELSE /\ ss' = SmoothEnsured(s)
             /\ hist' = Dispatched(h1, SmoothEnsured(s), SmoothRange,
                                   "do_smooth_brush_task_cb_ex", 0, fr.strength)
             /\ pc' = "dispatch"
             /\ tasks' = NewTasks(SmoothRange, "do_smooth_brush_task_cb_ex")

\* The dispatch of iteration `iteration` returned: the rest of the loop.
SmoothJoin ==
  /\ pc = "dispatch"
  /\ frame.fn = "SCULPT_smooth"
  /\ AllDone
  /\ LET iteration == frame.iteration + 1
     IN IF iteration <= frame.count
        THEN /\ frame' = [frame EXCEPT
                            !.iteration = iteration,
                            !.strength = IterationStrength(iteration, frame.count,
                                                           frame.last)]
             /\ hist' = Dispatched(Joined(hist), ss, SmoothRange,
                                   "do_smooth_brush_task_cb_ex", iteration,
                                   IterationStrength(iteration, frame.count,
                                                     frame.last))
             /\ tasks' = NewTasks(SmoothRange, "do_smooth_brush_task_cb_ex")
             /\ pc' = "dispatch"
        ELSE /\ frame' = [frame EXCEPT !.iteration = iteration]
             /\ hist' = Joined(hist)
             /\ tasks' = <<>>
             /\ pc' = "done"
  /\ UNCHANGED <<ss, nodes, brush>>

(***************************************************************************)
(* SCULPT_enhance_details_brush and SCULPT_do_smooth_brush.                *)
(***************************************************************************)
SCULPT_stroke_is_first_brush_step(cache) == cache.first_time

\* The allocation of cache->`buffer` entered in the history: the brush step
\* it happens in and whether the pointer was NULL before.
Allocated(h, s, buffer) ==
  [h EXCEPT !.allocs = Append(@, [buffer |-> buffer, step |-> h.step,
                                  first |-> s.cache.first_time,
                                  was_null |-> DOMAIN s.cache[buffer] = {}])]

\* Mutant: the detail directions allocated in every brush step.
EnhanceAllocatesAlways(s) == TRUE

\* if (SCULPT_stroke_is_first_brush_step(ss->cache)) of the detail brush
EnhanceAllocates(s) == SCULPT_stroke_is_first_brush_step(s.cache)

\* if (SCULPT_stroke_is_first_brush_step(ss->cache)) of the surface brush
SurfaceAllocates(s) == SCULPT_stroke_is_first_brush_step(s.cache)

EnhanceRange == BLI_task_parallel_range(0, totnode)

\* Mutant: the directions point from the average to the vertex.
DetailDirectionsReversed(s) ==
  [i \in 0 .. (SCULPT_vertex_count_get(s) - 1) |->
     sub_v(SCULPT_vertex_co_get(s, i), SCULPT_neighbor_coords_average(s, i))]

\* The detail directions computed in the first brush step.
DetailDirections(s) ==
  [i \in 0 .. (SCULPT_vertex_count_get(s) - 1) |->
     sub_v(SCULPT_neighbor_coords_average(s, i), SCULPT_vertex_co_get(s, i))]

SCULPT_enhance_details_brush(s, h) ==
  LET s1 == [s EXCEPT !.random_access = TRUE, !.boundary_info = TRUE]
      s2 == IF EnhanceAllocates(s1)
            THEN [s1 EXCEPT !.cache.detail_directions = DetailDirections(s1)]
            ELSE s1
      h0 == [h EXCEPT !.calls = Append(@, "SCULPT_enhance_details_brush")]
      h1 == IF EnhanceAllocates(s1) THEN Allocated(h0, s1, "detail_directions")
            ELSE h0
  IN /\ ss' = s2
     /\ frame' = [NoFrame EXCEPT !.fn = "SCULPT_enhance_details_brush"]
     /\ hist' = Dispatched(h1, s2, EnhanceRange,
                          "do_enhance_details_brush_task_cb_ex", 0, 0)
     /\ tasks' = NewTasks(EnhanceRange, "do_enhance_details_brush_task_cb_ex")
     /\ pc' = "dispatch"

EnhanceJoin ==
  /\ pc = "dispatch"
  /\ frame.fn = "SCULPT_enhance_details_brush"
  /\ AllDone
  /\ hist' = Joined(hist)
  /\ tasks' = <<>>
  /\ pc' = "done"
  /\ UNCHANGED <<ss, nodes, brush, frame>>

\* Mutant: a strict comparison.
InvertModeStrict(s) == s.cache.bstrength < 0

\* if (ss->cache->bstrength <= 0.0f)
InvertMode(s) == s.cache.bstrength <= 0

SCULPT_do_smooth_brush(s, h) ==
  LET h1 == [h EXCEPT !.calls = Append(@, "SCULPT_do_smooth_brush")]
  IN IF InvertMode(s)
     THEN SCULPT_enhance_details_brush(s, h1)
     ELSE SCULPT_smooth(s, h1, s.cache.bstrength, FALSE)

(***************************************************************************)
(* SCULPT_do_surface_smooth_brush.                                         *)
(***************************************************************************)
SurfaceRange == BLI_task_parallel_range(0, totnode)

LaplacianKernel == "SCULPT_do_surface_smooth_brush_laplacian_task_cb_ex"

DisplaceKernel == "SCULPT_do_surface_smooth_brush_displace_task_cb_ex"

\* Mutant: the displacement pass dispatched before the Laplacian pass.
SurfacePassesSwapped == <<DisplaceKernel, LaplacianKernel>>

\* The kernels of one outer iteration, in the order they are dispatched.
SurfacePasses == <<LaplacianKernel, DisplaceKernel>>

SCULPT_do_surface_smooth_brush(s, h) ==
  LET first == SurfaceAllocates(s)
      s1 == IF first
            THEN [s EXCEPT !.cache.surface_smooth_laplacian_disp =
                    [v \in 0 .. (SCULPT_vertex_count_get(s) - 1) |-> zero_v3]]
            ELSE s
      h0 == [h EXCEPT
               !.calls = Append(@, "SCULPT_do_surface_smooth_brush"),
               !.asserted = (@ \/ (first /\
                   DOMAIN s.cache.surface_smooth_laplacian_disp # {}))]
      h1 == IF first THEN Allocated(h0, s, "surface_smooth_laplacian_disp")
            ELSE h0
      fr == [NoFrame EXCEPT !.fn = "SCULPT_do_surface_smooth_brush",
                            !.i = 0, !.iteration = 1]
  IN /\ ss' = s1
     /\ frame' = fr
     /\ IF 0 < brush.surface_smooth_iterations
        THEN /\ hist' = Dispatched(h1, s1, SurfaceRange, SurfacePasses[1], 0, 0)
             /\ tasks' = NewTasks(SurfaceRange, SurfacePasses[1])
             /\ pc' = "dispatch"
        ELSE /\ hist' = h1
             /\ tasks' = <<>>
             /\ pc' = "done"

\* A dispatch of the loop returned; frame.iteration is the pass that ran
\* (1: Laplacian, 2: displace), frame.i the outer iteration.
SurfaceJoin ==
  /\ pc = "dispatch"
  /\ frame.fn = "SCULPT_do_surface_smooth_brush"
  /\ AllDone
  /\ IF frame.iteration < Len(SurfacePasses)
     THEN /\ frame' = [frame EXCEPT !.iteration = @ + 1]
          /\ hist' = Dispatched(Joined(hist), ss, SurfaceRange,
                                SurfacePasses[frame.iteration + 1], frame.i, 0)
          /\ tasks' = NewTasks(SurfaceRange, SurfacePasses[frame.iteration + 1])
          /\ pc' = "dispatch"
     ELSE IF frame.i + 1 < brush.surface_smooth_iterations
     THEN /\ frame' = [frame EXCEPT !.iteration = 1, !.i = @ + 1]
          /\ hist' = Dispatched(Joined(hist), ss, SurfaceRange,
                                SurfacePasses[1], frame.i + 1, 0)
          /\ tasks' = NewTasks(SurfaceRange, SurfacePasses[1])
          /\ pc' = "dispatch"
     ELSE /\ frame' = [frame EXCEPT !.i = @ + 1]
          /\ hist' = Joined(hist)
          /\ tasks' = <<>>
          /\ pc' = "done"
  /\ UNCHANGED <<ss, nodes, brush>>

(***************************************************************************)
(* Scenes: the meshes, sessions and brushes a brush step can start from.   *)
(***************************************************************************)
MaxSurfaceIterations == 2

EdgeKinds == {"complete", "star", "iso"}

\* complete: every pair; star: vertex 0 with every other; iso: vertex 0
\* isolated, every pair of the others; lone: the last vertex isolated.
Adjacent(kind, v, w) ==
  /\ v # w
  /\ CASE kind = "complete" -> TRUE
       [] kind = "star" -> (v = 0 \/ w = 0)
       [] kind = "iso" -> (v # 0 /\ w # 0)
       [] kind = "lone" -> (v # NumVerts - 1 /\ w # NumVerts - 1)

NeighborsOf(kind) ==
  [v \in Verts |-> SortedSeq({w \in Verts : Adjacent(kind, v, w)})]

BoundarySets == {{}, {0, 1}}

LowHalf == SortedSeq({v \in Verts : 2 * v < NumVerts})

HighHalf == SortedSeq({v \in Verts : 2 * v >= NumVerts})

\* Vertices on a line, the last ones out of the brush's reach.
LineLayout == [v \in Verts |-> <<12 * v * v, 0, 0>>]

\* Every vertex in the brush's reach.
SkewLayout == [v \in Verts |-> <<12 * v, 6 * (v % 2), 3 * v>>]

Layouts == {LineLayout, SkewLayout}

MaskLayout == [v \in Verts |-> (v * Sub) % (Unit + 1)]

ColorLayout == [v \in Verts |-> <<v, 2 * v, 3 * v, Unit>>]

\* A pmap exists for face-based meshes only.
FacesWithPmap == [type |-> "PBVH_FACES", pmap |-> TRUE]

Backends ==
  {FacesWithPmap, [type |-> "PBVH_FACES", pmap |-> FALSE],
   [type |-> "PBVH_GRIDS", pmap |-> FALSE], [type |-> "PBVH_BMESH", pmap |-> FALSE],
   [type |-> "PBVH_TRIMESH", pmap |-> FALSE]}

StrokeCache ==
  [bstrength |-> 0, first_time |-> TRUE, detail_directions |-> <<>>,
   surface_smooth_laplacian_disp |-> <<>>]

Session(lay, vm, kind, bnd, be) ==
  [co |-> lay, orig_co |-> lay, mask |-> MaskLayout, vmask |-> vm,
   color |-> ColorLayout, neighbors |-> NeighborsOf(kind), boundary |-> bnd,
   type |-> be.type, pmap |-> be.pmap, random_access |-> FALSE,
   boundary_info |-> FALSE, update |-> {}, cache |-> StrokeCache]

\* Every topology, on a face-based mesh with a mask, both nodes in reach.
TopologyScenes ==
  {[ss |-> Session(LineLayout, TRUE, kind, bnd, FacesWithPmap),
    nodes |-> <<LowHalf, HighHalf>>] :
   kind \in EdgeKinds, bnd \in BoundarySets}

\* Every backend, with and without a mask, one node in reach.
BackendScenes ==
  {[ss |-> Session(lay, vm, "complete", {}, be), nodes |-> <<HighHalf>>] :
   lay \in Layouts, vm \in BOOLEAN, be \in Backends}

Scenes ==
  TopologyScenes \cup BackendScenes
  \cup {[ss |-> Session(SkewLayout, TRUE, "complete", {}, FacesWithPmap),
         nodes |-> <<LowHalf, HighHalf>>]}

Tools == {"smooth_brush", "smooth", "surface_smooth"}

Brushes ==
  {[tool |-> tool, location |-> zero_v3, radius_squared |-> 100 * 100,
    surface_smooth_shape_preservation |-> alpha,
    surface_smooth_current_vertex |-> beta,
    surface_smooth_iterations |-> iters] :
   tool \in Tools, alpha \in {0, Unit}, beta \in {0, Unit \div 2},
   iters \in 1 .. MaxSurfaceIterations}

StrengthInputs == {0 - Unit - 1, 0 - (Unit \div 2)} \cup ((0 - 1) .. (Unit + 1))

SurfaceStrengthInputs == {s \in StrengthInputs : s % (Unit \div 2) = 0}

NoHist ==
  [runs |-> <<>>, last_runs |-> <<>>, writers |-> [v \in Verts |-> {}],
   started |-> <<>>, completed |-> <<>>, calls |-> <<>>,
   asserted |-> FALSE, null_deref |-> FALSE, ss_in |-> <<>>,
   allocs |-> <<>>, step |-> 1, strengths |-> <<>>, pass_in |-> <<>>]

Init ==
  /\ \E sc \in Scenes : ss = sc.ss /\ nodes = sc.nodes
  /\ brush \in Brushes
  /\ brush.tool # "surface_smooth" =>
       /\ brush.surface_smooth_shape_preservation = 0
       /\ brush.surface_smooth_current_vertex = 0
       /\ brush.surface_smooth_iterations = 1
  /\ pc = "idle"
  /\ frame = NoFrame
  /\ tasks = <<>>
  /\ hist = [NoHist EXCEPT !.ss_in = ss]

(***************************************************************************)
(* Brush steps: the stroke sets cache->bstrength and calls the tool.       *)
(***************************************************************************)
StepSession(s) == [ss EXCEPT !.cache.bstrength = s]

\* The history at the entry of a brush step of strength s.
StepHist(s) ==
  [hist EXCEPT !.ss_in = StepSession(s), !.strengths = Append(@, s)]

DoSmoothBrush(s) ==
  /\ pc = "idle"
  /\ brush.tool = "smooth_brush"
  /\ SCULPT_do_smooth_brush(StepSession(s), StepHist(s))
  /\ UNCHANGED <<nodes, brush>>

Smooth(s, smooth_mask) ==
  /\ pc = "idle"
  /\ brush.tool = "smooth"
  /\ SCULPT_smooth(StepSession(s), StepHist(s),
                   s, smooth_mask)
  /\ UNCHANGED <<nodes, brush>>

DoSurfaceSmoothBrush(s) ==
  /\ pc = "idle"
  /\ brush.tool = "surface_smooth"
  /\ SCULPT_do_surface_smooth_brush(StepSession(s),
                                    StepHist(s))
  /\ UNCHANGED <<nodes, brush>>

Next ==
  \/ \E s \in StrengthInputs : DoSmoothBrush(s)
  \/ \E s \in StrengthInputs, m \in BOOLEAN : Smooth(s, m)
  \/ \E s \in SurfaceStrengthInputs : DoSurfaceSmoothBrush(s)
  \/ \E n \in DOMAIN tasks : TaskStart(n)
  \/ \E n \in DOMAIN tasks : TaskStep(n)
  \/ SmoothJoin
  \/ EnhanceJoin
  \/ SurfaceJoin

Spec == Init /\ [][Next]_vars

(***************************************************************************)
(* A stroke of several brush steps of one tool: the stroke code clears     *)
(* cache->first_time after the first step and keeps the cache's buffers.   *)
(***************************************************************************)
MaxSteps == 2

StrokeStrengths == {0 - (Unit \div 2), 0, Unit \div 2}

\* Vertex 2 alone in reach of the brush step, and both halves of the mesh.
StrokeNodes == {<<<<2>>>>, <<LowHalf, HighHalf>>}

InitStroke ==
  /\ ss = Session(LineLayout, TRUE, "complete", {}, FacesWithPmap)
  /\ nodes \in StrokeNodes
  /\ brush \in {b \in Brushes : /\ b.tool # "smooth"
                                /\ b.surface_smooth_shape_preservation = Unit
                                /\ b.surface_smooth_current_vertex = 0
                                /\ b.surface_smooth_iterations = 1}
  /\ pc = "idle"
  /\ frame = NoFrame
  /\ tasks = <<>>
  /\ hist = [NoHist EXCEPT !.ss_in = ss]

\* The stroke goes on to its next brush step.
NextBrushStep ==
  /\ pc = "done"
  /\ hist.step < MaxSteps
  /\ pc' = "idle"
  /\ ss' = [ss EXCEPT !.cache.first_time = FALSE]
  /\ hist' = [hist EXCEPT !.step = @ + 1]
  /\ frame' = NoFrame
  /\ tasks' = <<>>
  /\ UNCHANGED <<nodes, brush>>

NextStroke ==
  \/ \E s \in StrokeStrengths : DoSmoothBrush(s)
  \/ \E s \in StrokeStrengths : DoSurfaceSmoothBrush(s)
  \/ \E n \in DOMAIN tasks : TaskStart(n)
  \/ \E n \in DOMAIN tasks : TaskStep(n)
  \/ SmoothJoin
  \/ EnhanceJoin
  \/ SurfaceJoin
  \/ NextBrushStep

SpecStroke == InitStroke /\ [][NextStroke]_vars

(***************************************************************************)
(* SCULPT_do_surface_smooth_brush with every blend of alpha and beta, on a *)
(* mesh with and without a vertex that has no neighbour.                   *)
(***************************************************************************)
SurfaceBlends == {0, Unit \div 2, Unit}

SurfaceStrengths == {Unit \div 2, Unit}

InitSurface ==
  /\ \E kind \in {"complete", "iso"} :
       ss = Session(LineLayout, TRUE, kind, {}, FacesWithPmap)
  /\ nodes = <<LowHalf, HighHalf>>
  /\ \E alpha \in SurfaceBlends, beta \in SurfaceBlends,
        iters \in 1 .. MaxSurfaceIterations :
       brush = [tool |-> "surface_smooth", location |-> zero_v3,
                radius_squared |-> 100 * 100,
                surface_smooth_shape_preservation |-> alpha,
                surface_smooth_current_vertex |-> beta,
                surface_smooth_iterations |-> iters]
  /\ pc = "idle"
  /\ frame = NoFrame
  /\ tasks = <<>>
  /\ hist = [NoHist EXCEPT !.ss_in = ss]

NextSurface ==
  \/ \E s \in SurfaceStrengths : DoSurfaceSmoothBrush(s)
  \/ \E n \in DOMAIN tasks : TaskStart(n)
  \/ \E n \in DOMAIN tasks : TaskStep(n)
  \/ SurfaceJoin

SpecSurface == InitSurface /\ [][NextSurface]_vars

(***************************************************************************)
(* SCULPT_smooth in position mode on a flat mesh without boundary, one     *)
(* vertex lifted off the plane z = 0.                                      *)
(***************************************************************************)
PlaneHeights == {0 - 48, 48}

PlaneLayout(p, h) ==
  [v \in Verts |-> <<12 * v, 6 * (v % 2), IF v = p THEN h ELSE 0>>]

PlaneStrengths == {1, Unit \div 4}

InitPlane ==
  /\ \E p \in Verts, h \in PlaneHeights :
       ss = Session(PlaneLayout(p, h), TRUE, "complete", {}, FacesWithPmap)
  /\ nodes = <<LowHalf, HighHalf>>
  /\ brush \in {b \in Brushes : /\ b.tool = "smooth"
                                /\ b.surface_smooth_shape_preservation = 0
                                /\ b.surface_smooth_current_vertex = 0
                                /\ b.surface_smooth_iterations = 1}
  /\ pc = "idle"
  /\ frame = NoFrame
  /\ tasks = <<>>
  /\ hist = [NoHist EXCEPT !.ss_in = ss]

NextPlane ==
  \/ \E s \in PlaneStrengths : Smooth(s, FALSE)
  \/ \E n \in DOMAIN tasks : TaskStart(n)
  \/ \E n \in DOMAIN tasks : TaskStep(n)
  \/ SmoothJoin

SpecPlane == InitPlane /\ [][NextPlane]_vars

(***************************************************************************)
(* The averaging primitives called on their own: a session is drawn and    *)
(* one primitive is applied to one vertex.                                 *)
(***************************************************************************)
AvgSessions ==
  {Session(lay, TRUE, kind, bnd, FacesWithPmap) :
   lay \in Layouts, kind \in EdgeKinds \cup {"lone"}, bnd \in SUBSET Verts}

InitAvg ==
  /\ ss \in AvgSessions
  /\ nodes = <<>>
  /\ brush \in {b \in Brushes : /\ b.tool = "smooth"
                                /\ b.surface_smooth_shape_preservation = 0
                                /\ b.surface_smooth_current_vertex = 0
                                /\ b.surface_smooth_iterations = 1}
  /\ pc = "idle"
  /\ frame = [fn |-> "none", index |-> 0, result |-> 0]
  /\ tasks = <<>>
  /\ hist = [NoHist EXCEPT !.ss_in = ss]

Returned(fn, index, result) ==
  /\ pc = "idle"
  /\ pc' = "returned"
  /\ frame' = [fn |-> fn, index |-> index, result |-> result]
  /\ UNCHANGED <<ss, nodes, brush, tasks, hist>>

NeighborCoordsAverage(index) ==
  Returned("SCULPT_neighbor_coords_average", index,
           SCULPT_neighbor_coords_average(ss, index))

NeighborCoordsAverageInterior(index) ==
  Returned("SCULPT_neighbor_coords_average_interior", index,
           SCULPT_neighbor_coords_average_interior(ss, index))

NeighborMaskAverage(index) ==
  Returned("SCULPT_neighbor_mask_average", index,
           SCULPT_neighbor_mask_average(ss, index))

NeighborColorAverage(index) ==
  Returned("SCULPT_neighbor_color_average", index,
           SCULPT_neighbor_color_average(ss, index))

NextAvg ==
  \/ \E index \in Verts : NeighborCoordsAverage(index)
  \/ \E index \in Verts : NeighborCoordsAverageInterior(index)
  \/ \E index \in Verts : NeighborMaskAverage(index)
  \/ \E index \in Verts : NeighborColorAverage(index)

SpecAvg == InitAvg /\ [][NextAvg]_vars

(***************************************************************************)
(* Exact arithmetic for the directional average: a number is a reduced     *)
(* fraction [n, d] with d > 0, a vector a triple of them.                  *)
(***************************************************************************)
Abs(x) == IF x < 0 THEN 0 - x ELSE x

RECURSIVE GCD(_, _)
GCD(a, b) == IF b = 0 THEN a ELSE GCD(b, a % b)

\* The fraction n / d, d # 0, reduced.
Q(n, d) ==
  LET g == GCD(Abs(n), Abs(d))
      s == IF d < 0 THEN 0 - 1 ELSE 1
  IN [n |-> (s * n) \div g, d |-> (s * d) \div g]

QInt(i) == [n |-> i, d |-> 1]

\* Sum over the least common denominator.
QAdd(a, b) ==
  LET g == GCD(a.d, b.d)
  IN Q(a.n * (b.d \div g) + b.n * (a.d \div g), (a.d \div g) * b.d)

QSub(a, b) == QAdd(a, [n |-> 0 - b.n, d |-> b.d])

\* Product, the common factors cancelled before multiplying.
QMul(a, b) ==
  LET g1 == GCD(Abs(a.n), b.d)
      g2 == GCD(Abs(b.n), a.d)
  IN Q((a.n \div g1) * (b.n \div g2), (a.d \div g2) * (b.d \div g1))

\* Quotient, b # 0.
QDiv(a, b) ==
  QMul(a, IF b.n < 0 THEN [n |-> 0 - b.d, d |-> 0 - b.n]
          ELSE [n |-> b.d, d |-> b.n])

QNeg(a) == [n |-> 0 - a.n, d |-> a.d]

QVec(x, y, z) == <<QInt(x), QInt(y), QInt(z)>>

\* A vector of integers over a common denominator.
QVecOver(x, y, z, d) == <<Q(x, d), Q(y, d), Q(z, d)>>

dot_v3v3(a, b) ==
  QAdd(QAdd(QMul(a[1], b[1]), QMul(a[2], b[2])), QMul(a[3], b[3]))

add_v3_v3(r, a) == [i \in 1 .. 3 |-> QAdd(r[i], a[i])]

sub_v3_v3v3(a, b) == [i \in 1 .. 3 |-> QSub(a[i], b[i])]

mul_v3_v3fl(a, f) == [i \in 1 .. 3 |-> QMul(a[i], f)]

\* r += a * f
madd_v3_v3fl(r, a, f) == [i \in 1 .. 3 |-> QAdd(r[i], QMul(a[i], f))]

\* dot_v3v3(vec, direction) squared, vec after normalize_v3: a vector too
\* short to normalize becomes the zero vector.
NormalizedDotSquared(vec, direction) ==
  LET len_sq == dot_v3v3(vec, vec)
      d == dot_v3v3(vec, direction)
  IN IF len_sq.n = 0 THEN QInt(0) ELSE QDiv(QMul(d, d), len_sq)

(***************************************************************************)
(* SCULPT_bmesh_four_neighbor_average.  A vertex v is [co, no, edges], an  *)
(* edge [other, boundary] with the position of its other end.              *)
(***************************************************************************)
\* Mutant: the sign of the dot product kept when it is squared.
BmeshFacSigned(v, e, direction) ==
  LET vec0 == sub_v3_v3v3(e.other, v.co)
      vec == madd_v3_v3fl(vec0, v.no, QNeg(dot_v3v3(vec0, v.no)))
      sq == NormalizedDotSquared(vec, direction)
      fac == QSub(IF dot_v3v3(vec, direction).n < 0 THEN QNeg(sq) ELSE sq,
                  Q(1, 2))
  IN QMul(fac, fac)

\* fac of one edge: the edge vector projected on the tangent plane and
\* normalized, its dot product with direction squared, less 0.5, squared.
BmeshFac(v, e, direction) ==
  LET vec0 == sub_v3_v3v3(e.other, v.co)
      vec == madd_v3_v3fl(vec0, v.no, QNeg(dot_v3v3(vec0, v.no)))
      fac == QSub(NormalizedDotSquared(vec, direction), Q(1, 2))
  IN QMul(fac, fac)

\* Mutant: the boundary test made on the first edge only.
RECURSIVE BmeshEdgesFirstOnly(_, _, _, _, _)
BmeshEdgesFirstOnly(v, direction, i, avg_co, tot_co) ==
  IF i > Len(v.edges)
  THEN [boundary |-> FALSE, avg_co |-> avg_co, tot_co |-> tot_co]
  ELSE IF v.edges[i].boundary /\ i = 1
  THEN [boundary |-> TRUE, avg_co |-> avg_co, tot_co |-> tot_co]
  ELSE LET fac == BmeshFac(v, v.edges[i], direction)
       IN BmeshEdgesFirstOnly(v, direction, i + 1,
                              madd_v3_v3fl(avg_co, v.edges[i].other, fac),
                              QAdd(tot_co, fac))

\* BM_ITER_ELEM (e, &eiter, v, BM_EDGES_OF_VERT) from edge i on.
RECURSIVE BmeshEdges(_, _, _, _, _)
BmeshEdges(v, direction, i, avg_co, tot_co) ==
  IF i > Len(v.edges)
  THEN [boundary |-> FALSE, avg_co |-> avg_co, tot_co |-> tot_co]
  ELSE IF v.edges[i].boundary
  THEN [boundary |-> TRUE, avg_co |-> avg_co, tot_co |-> tot_co]
  ELSE LET fac == BmeshFac(v, v.edges[i], direction)
       IN BmeshEdges(v, direction, i + 1,
                     madd_v3_v3fl(avg_co, v.edges[i].other, fac),
                     QAdd(tot_co, fac))

\* Mutant: the correction along the normal left out.
BmeshKeepVolume(v, avg) == avg

\* Preserve volume: avg with the part of (avg - co) along the normal removed.
BmeshPreserveVolume(v, avg) ==
  LET avg1 == sub_v3_v3v3(avg, v.co)
      vec == mul_v3_v3fl(v.no, dot_v3v3(avg1, v.no))
  IN add_v3_v3(sub_v3_v3v3(avg1, vec), v.co)

SCULPT_bmesh_four_neighbor_average(v, direction) ==
  LET r == BmeshEdges(v, direction, 1, QVec(0, 0, 0), QInt(0))
  IN IF r.boundary THEN v.co
     ELSE IF r.tot_co.n > 0
     THEN BmeshPreserveVolume(
            v, mul_v3_v3fl(r.avg_co, QDiv(QInt(1), r.tot_co)))
     ELSE QVec(0, 0, 0)

(***************************************************************************)
(* SCULPT_trimesh_four_neighbor_average.                                   *)
(***************************************************************************)
TrimeshFac(v, e, direction) ==
  LET vec0 == sub_v3_v3v3(e.other, v.co)
      vec == madd_v3_v3fl(vec0, v.no, QNeg(dot_v3v3(vec0, v.no)))
      fac == QSub(NormalizedDotSquared(vec, direction), Q(1, 2))
  IN QMul(fac, fac)

\* for (int i=0; i<v->edges.length; i++) from edge i on.
RECURSIVE TrimeshEdges(_, _, _, _, _)
TrimeshEdges(v, direction, i, avg_co, tot_co) ==
  IF i > Len(v.edges)
  THEN [boundary |-> FALSE, avg_co |-> avg_co, tot_co |-> tot_co]
  ELSE IF v.edges[i].boundary
  THEN [boundary |-> TRUE, avg_co |-> avg_co, tot_co |-> tot_co]
  ELSE LET fac == TrimeshFac(v, v.edges[i], direction)
       IN TrimeshEdges(v, direction, i + 1,
                       madd_v3_v3fl(avg_co, v.edges[i].other, fac),
                       QAdd(tot_co, fac))

TrimeshPreserveVolume(v, avg) ==
  LET avg1 == sub_v3_v3v3(avg, v.co)
      vec == mul_v3_v3fl(v.no, dot_v3v3(avg1, v.no))
  IN add_v3_v3(sub_v3_v3v3(avg1, vec), v.co)

\* Mutant: the vertex's own position where the total weight is zero.
TrimeshAverageOwnOnZero(v, direction) ==
  LET r == TrimeshEdges(v, direction, 1, QVec(0, 0, 0), QInt(0))
  IN IF r.boundary \/ r.tot_co.n <= 0 THEN v.co
     ELSE TrimeshPreserveVolume(
            v, mul_v3_v3fl(r.avg_co, QDiv(QInt(1), r.tot_co)))

SCULPT_trimesh_four_neighbor_average(v, direction) ==
  LET r == TrimeshEdges(v, direction, 1, QVec(0, 0, 0), QInt(0))
  IN IF r.boundary THEN v.co
     ELSE IF r.tot_co.n > 0
     THEN TrimeshPreserveVolume(
            v, mul_v3_v3fl(r.avg_co, QDiv(QInt(1), r.tot_co)))
     ELSE QVec(0, 0, 0)

(***************************************************************************)
(* The directional average called on its own: a vertex with its edges and  *)
(* a direction are drawn and one implementation is applied; on a grid the  *)
(* caller may move the vertex to the average and apply it again.           *)
(***************************************************************************)
MaxEdges == 2

MaxApplications == 2

\* Ends of edges relative to the vertex.  Projected on the tangent plane of
\* either normal they lie along an axis or have squared length 5, so that
\* no weight is zero: dot^2 = 1/2 would take an irrational direction.
EdgeOffsets ==
  {QVec(1, 0, 0), QVec(0, 1, 0), QVec(0 - 1, 0, 1), QVec(0, 2, 0 - 1),
   QVec(2, 1, 0), QVec(0, 0, 1)}

VertexPositions == {QVec(0, 0, 0), QVec(1, 2, 3)}

\* Unit normals.
VertexNormals == {QVec(0, 0, 1), QVec(1, 0, 0)}

Directions ==
  {QVec(1, 0, 0), QVec(0, 1, 0), QVecOver(3, 4, 0, 5), QVecOver(1, 1, 0, 2),
   QVec(0, 0, 0)}

RECURSIVE EdgeLists(_)
EdgeLists(len) ==
  IF len = 0 THEN {<<>>}
  ELSE EdgeLists(len - 1)
       \cup {Append(es, [offset |-> o, boundary |-> b]) :
             es \in {l \in EdgeLists(len - 1) : Len(l) = len - 1},
             o \in EdgeOffsets, b \in BOOLEAN}

EdgesAt(co, es) ==
  [k \in DOMAIN es |-> [other |-> add_v3_v3(co, es[k].offset),
                        boundary |-> es[k].boundary]]

\* The four edges of an interior vertex of a regular quad grid of spacing
\* h in the plane of the two axes other than the normal's.
GridOffsets(no, h) ==
  IF no = QVec(0, 0, 1)
  THEN <<QVec(h, 0, 0), QVec(0, h, 0), QVec(0 - h, 0, 0), QVec(0, 0 - h, 0)>>
  ELSE <<QVec(0, h, 0), QVec(0, 0, h), QVec(0, 0 - h, 0), QVec(0, 0, 0 - h)>>

GridSpacings == {1, 2}

FourScenes ==
  {[co |-> co, no |-> no, edges |-> EdgesAt(co, es), grid |-> FALSE] :
   co \in VertexPositions, no \in VertexNormals, es \in EdgeLists(MaxEdges)}
  \cup
  {[co |-> co, no |-> no, grid |-> TRUE,
    edges |-> [k \in 1 .. 4 |-> [other |-> add_v3_v3(co, GridOffsets(no, h)[k]),
                                boundary |-> FALSE]]] :
   co \in VertexPositions, no \in VertexNormals, h \in GridSpacings}

InitFour ==
  /\ ss = <<>>
  /\ nodes = <<>>
  /\ brush = <<>>
  /\ tasks = <<>>
  /\ hist = NoHist
  /\ pc = "idle"
  /\ \E v \in FourScenes, direction \in Directions :
       frame = [fn |-> "none", v |-> v, direction |-> direction,
                avg |-> v.co, results |-> <<>>]

FourReturned(fn, avg) ==
  /\ pc = "idle"
  /\ pc' = "returned"
  /\ frame' = [frame EXCEPT !.fn = fn, !.avg = avg,
                            !.results = Append(@, avg)]
  /\ UNCHANGED <<ss, nodes, brush, tasks, hist>>

BmeshFourNeighborAverage ==
  FourReturned("SCULPT_bmesh_four_neighbor_average",
               SCULPT_bmesh_four_neighbor_average(frame.v, frame.direction))

TrimeshFourNeighborAverage ==
  FourReturned("SCULPT_trimesh_four_neighbor_average",
               SCULPT_trimesh_four_neighbor_average(frame.v, frame.direction))

\* The round trip on a grid: the caller stores the average as the position
\* of the grid's vertex, for the next application.
MoveToAverage ==
  /\ pc = "returned"
  /\ frame.v.grid
  /\ Len(frame.results) < MaxApplications
  /\ pc' = "idle"
  /\ frame' = [frame EXCEPT !.v.co = frame.avg]
  /\ UNCHANGED <<ss, nodes, brush, tasks, hist>>

NextFour ==
  \/ BmeshFourNeighborAverage
  \/ TrimeshFourNeighborAverage
  \/ MoveToAverage

SpecFour == InitFour /\ [][NextFour]_vars

(***************************************************************************)
(* Properties.                                                             *)
(***************************************************************************)
Range(seq) == {seq[k] : k \in DOMAIN seq}

InDispatch == pc = "dispatch"

\* The dispatch in progress, or the last one issued.
Current == hist.started[Len(hist.started)]

EveryNodeOnce == [n \in 0 .. (totnode - 1) |-> 1]

\* C1: in SCULPT_do_surface_smooth_brush, whenever a displacement task of
\* outer iteration i has entered its kernel, the Laplacian dispatch of
\* iteration i has returned with its kernel run on every node, it is the
\* dispatch completed last, and no Laplacian task is running.
C1_LaplacianBeforeDisplace ==
  \A n \in DOMAIN tasks :
    (InDispatch /\ tasks[n].kernel = DisplaceKernel /\ tasks[n].st # "pending")
    => /\ hist.completed # <<>>
       /\ hist.completed[Len(hist.completed)].kernel = LaplacianKernel
       /\ hist.completed[Len(hist.completed)].iter = Current.iter
       /\ Current.iter = frame.i
       /\ hist.last_runs = EveryNodeOnce
       /\ \A m \in DOMAIN tasks : tasks[m].kernel # LaplacianKernel

\* A displacement task of the second outer iteration is running beside
\* another one.
C1_Witness ==
  /\ InDispatch
  /\ frame.fn = "SCULPT_do_surface_smooth_brush"
  /\ frame.i = 1
  /\ totnode = 2
  /\ \A n \in DOMAIN tasks :
       tasks[n].kernel = DisplaceKernel /\ tasks[n].st = "running"

\* C2: a dispatch covers exactly the nodes 0..totnode-1, a node's kernel is
\* entered once when a worker takes it and never again, and a dispatch that
\* returned has run the kernel exactly once on every node with every task
\* finished; at most one dispatch is in progress, and the orchestrator is
\* back at its caller only with every dispatch it issued returned.
C2_EveryNodeExactlyOnce ==
  /\ InDispatch =>
       /\ DOMAIN tasks = 0 .. (totnode - 1)
       /\ \A n \in DOMAIN tasks :
            hist.runs[n] = IF tasks[n].st = "pending" THEN 0 ELSE 1
       /\ Len(hist.started) = Len(hist.completed) + 1
  /\ pc \in {"idle", "done"} => Len(hist.started) = Len(hist.completed)
  /\ hist.completed # <<>> => hist.last_runs = EveryNodeOnce
  /\ pc = "done" => tasks = <<>>

\* The surface smooth brush returned after four dispatches over two nodes.
C2_Witness ==
  /\ pc = "done"
  /\ frame.fn = "SCULPT_do_surface_smooth_brush"
  /\ totnode = 2
  /\ Len(hist.completed) = 4
  /\ hist.last_runs = EveryNodeOnce

\* C3: during a dispatch the position or mask of a vertex is stored to by
\* at most one task, the task of the node that holds the vertex.
C3_ExclusiveWrites ==
  \A v \in Verts :
    /\ Cardinality(hist.writers[v]) <= 1
    /\ \A n \in hist.writers[v] : v \in Range(Node(n))

\* Two tasks are running at once and each has stored to a vertex.
C3_Witness ==
  /\ InDispatch
  /\ totnode = 2
  /\ \A n \in DOMAIN tasks : tasks[n].st = "running"
  /\ \E v, w \in Verts : hist.writers[v] = {0} /\ hist.writers[w] = {1}

\* The kernel run over the vertices vs one after the other.
RECURSIVE RunVerts(_, _, _, _, _)
RunVerts(kernel, s, br, data, vs) ==
  IF vs = <<>> THEN s
  ELSE RunVerts(kernel, KernelVertex(kernel, s, br, data, Head(vs)).ss,
                br, data, Tail(vs))

\* One dispatch run node after node in index order, from node n on.
RECURSIVE RunNodes(_, _, _, _, _)
RunNodes(kernel, s, br, data, n) ==
  IF n >= totnode THEN s
  ELSE RunNodes(kernel, RunVerts(kernel, s, br, data, Node(n)), br, data, n + 1)

\* The dispatches of SCULPT_smooth from `iteration` on, each in index order.
RECURSIVE RunSmooth(_, _, _, _)
RunSmooth(s, br, fr, iteration) ==
  IF iteration > fr.count THEN s
  ELSE RunSmooth(
         RunNodes("do_smooth_brush_task_cb_ex", s, br,
                  [fr EXCEPT !.strength =
                     IterationStrength(iteration, fr.count, fr.last)], 0),
         br, fr, iteration + 1)

\* The passes of SCULPT_do_surface_smooth_brush from outer iteration i on.
RECURSIVE RunSurface(_, _, _, _)
RunSurface(s, br, fr, i) ==
  IF i >= br.surface_smooth_iterations THEN s
  ELSE RunSurface(
         RunNodes(DisplaceKernel,
                  RunNodes(LaplacianKernel, s, br, fr, 0), br, fr, 0),
         br, fr, i + 1)

\* C4: when SCULPT_smooth or SCULPT_do_surface_smooth_brush has returned,
\* the positions and masks are those of the run that takes the nodes of
\* every dispatch one after the other in index order, whatever the order
\* and interleaving the dispatcher chose.
C4_ScheduleIndependent ==
  /\ (pc = "done" /\ frame.fn = "SCULPT_smooth" /\ ~hist.asserted) =>
       LET ref == RunSmooth(SmoothEnsured(hist.ss_in), brush, frame, 0)
       IN ss.co = ref.co /\ ss.mask = ref.mask
  /\ (pc = "done" /\ frame.fn = "SCULPT_do_surface_smooth_brush") =>
       LET s0 == [hist.ss_in EXCEPT !.cache.surface_smooth_laplacian_disp =
                    [v \in Verts |-> zero_v3]]
           ref == RunSurface(s0, brush, frame, 0)
       IN ss.co = ref.co /\ ss.mask = ref.mask

ClampedStrength == CLAMP(frame.arg, 0, Unit)

\* floor(4 s) and the remainder 4 (s - floor(4 s) / 4), s the clamped strength.
Quarters == CHOOSE c \in 0 .. max_iterations :
              c * Unit <= max_iterations * ClampedStrength
              /\ max_iterations * ClampedStrength < (c + 1) * Unit

Remainder == max_iterations * ClampedStrength - Quarters * Unit

SmoothRan == frame.fn = "SCULPT_smooth" /\ ~hist.asserted

RECURSIVE SumStrengths(_)
SumStrengths(log) ==
  IF log = <<>> THEN 0 ELSE log[1].strength + SumStrengths(Tail(log))

\* C5: SCULPT_smooth, past its pmap check, issues its dispatches in the
\* order k = 0, 1, ..., one at a time, each started only when the one before
\* has returned, the strength of dispatch k being 1.0 for k < count and
\* last = 4 (strength - count / 4) for k = count; when it returns it has
\* issued and completed exactly count + 1 of them.
C5_IterationSchedule ==
  SmoothRan =>
    /\ \A k \in DOMAIN hist.started :
         /\ hist.started[k].iter = k - 1
         /\ hist.started[k].kernel = "do_smooth_brush_task_cb_ex"
         /\ k - 1 <= Quarters
         /\ hist.started[k].strength = IF k - 1 < Quarters THEN Unit ELSE Remainder
    /\ Len(hist.completed) \in {Len(hist.started) - 1, Len(hist.started)}
    /\ \A k \in DOMAIN hist.completed : hist.completed[k] = hist.started[k]
    /\ InDispatch => /\ frame.iteration = Len(hist.completed)
                     /\ frame.strength = Current.strength
    /\ pc = "done" => /\ Len(hist.started) = Quarters + 1
                      /\ Len(hist.completed) = Quarters + 1

\* A call with strength 3/8 returned: one full pass, then one at 0.5.
C5_Witness ==
  /\ pc = "done"
  /\ SmoothRan
  /\ totnode = 2
  /\ Len(hist.completed) = 2
  /\ hist.completed[1].strength = Unit
  /\ hist.completed[2].strength = Unit \div 2

\* C6: in SCULPT_smooth the strength is clamped to [0,1], count is
\* floor(4 s), last is 4 (s - count / 4) and lies in [0,1); the strengths
\* of the dispatches of a returned call add up to count + last = 4 s; at
\* s = 1.0 count = 4 and last = 0, at s = 0.25 count = 1 and last = 0.
C6_IterationCountLaw ==
  frame.fn = "SCULPT_smooth" =>
    /\ frame.bstrength = ClampedStrength
    /\ frame.count * Unit <= max_iterations * frame.bstrength
    /\ max_iterations * frame.bstrength < (frame.count + 1) * Unit
    /\ frame.last = max_iterations * frame.bstrength - frame.count * Unit
    /\ 0 <= frame.last /\ frame.last < Unit
    /\ frame.arg >= Unit => frame.count = max_iterations /\ frame.last = 0
    /\ max_iterations * frame.arg = Unit => frame.count = 1 /\ frame.last = 0
    /\ (pc = "done" /\ ~hist.asserted) =>
         /\ SumStrengths(hist.completed) = frame.count * Unit + frame.last
         /\ SumStrengths(hist.completed) = max_iterations * frame.bstrength

\* A call with strength 1.0 returned after four full passes and one at 0.
C6_Witness ==
  /\ pc = "done"
  /\ SmoothRan
  /\ frame.arg = Unit
  /\ frame.count = 4
  /\ Len(hist.completed) = 5
  /\ SumStrengths(hist.completed) = 4 * Unit

\* C7: SCULPT_smooth called with strength 0 has count = 0 and last = 0,
\* issues one dispatch, of strength 0, and at no point of the call differs
\* a position or a mask value from what it was at the call.
C7_ZeroStrengthIdentity ==
  (frame.fn = "SCULPT_smooth" /\ frame.arg = 0) =>
    /\ frame.count = 0 /\ frame.last = 0
    /\ ss.co = hist.ss_in.co
    /\ ss.mask = hist.ss_in.mask
    /\ \A k \in DOMAIN hist.started : k = 1 /\ hist.started[k].strength = 0
    /\ (pc = "done" /\ ~hist.asserted) => Len(hist.completed) = 1

\* A call with strength 0 returned, its kernel having handled, in position
\* mode, a vertex with three neighbours that lies off their average.
C7_Witness ==
  /\ pc = "done"
  /\ SmoothRan
  /\ frame.arg = 0
  /\ ~frame.smooth_mask
  /\ \E v \in ss.update :
       /\ Len(ss.neighbors[v]) > 2
       /\ SCULPT_neighbor_coords_average_interior(ss, v) # ss.co[v]

\* C7 in mask mode: the kernel handled a vertex whose mask differs from the
\* average of its neighbours' masks.
C7_WitnessMask ==
  /\ pc = "done"
  /\ SmoothRan
  /\ frame.arg = 0
  /\ frame.smooth_mask
  /\ \E v \in ss.update : SCULPT_neighbor_mask_average(ss, v) # ss.mask[v]

FirstCall == hist.calls[1]

\* C8: a brush step of SCULPT_do_smooth_brush with cache->bstrength <= 0
\* calls SCULPT_enhance_details_brush alone and dispatches only the detail
\* kernel; with bstrength > 0 it calls SCULPT_smooth alone, with that
\* strength and mask mode off, and dispatches only the smoothing kernel.
C8_ModeSelection ==
  (hist.calls # <<>> /\ FirstCall = "SCULPT_do_smooth_brush") =>
    IF hist.ss_in.cache.bstrength <= 0
    THEN /\ hist.calls = <<"SCULPT_do_smooth_brush", "SCULPT_enhance_details_brush">>
         /\ frame.fn = "SCULPT_enhance_details_brush"
         /\ \A k \in DOMAIN hist.started :
              hist.started[k].kernel = "do_enhance_details_brush_task_cb_ex"
    ELSE /\ hist.calls = <<"SCULPT_do_smooth_brush", "SCULPT_smooth">>
         /\ frame.fn = "SCULPT_smooth"
         /\ frame.arg = hist.ss_in.cache.bstrength
         /\ ~frame.smooth_mask
         /\ \A k \in DOMAIN hist.started :
              hist.started[k].kernel = "do_smooth_brush_task_cb_ex"

\* A brush step with bstrength = 0 returned from the detail enhancement.
C8_Witness ==
  /\ pc = "done"
  /\ hist.calls # <<>>
  /\ FirstCall = "SCULPT_do_smooth_brush"
  /\ hist.ss_in.cache.bstrength = 0
  /\ Len(hist.completed) = 1
  /\ totnode = 2

\* C9: SCULPT_smooth on a PBVH_FACES mesh without pmap returns at once: no
\* dispatch is issued and the session (positions, masks, random-access and
\* boundary-info state, stroke cache) is what it was at the call.
C9_PmapMissingNoOp ==
  (frame.fn = "SCULPT_smooth" /\ hist.ss_in.type = "PBVH_FACES"
   /\ ~hist.ss_in.pmap) =>
    /\ pc = "done"
    /\ hist.started = <<>>
    /\ tasks = <<>>
    /\ ss = hist.ss_in
    /\ ~ss.random_access /\ ~ss.boundary_info

\* Such a call returned, its assertion reported.
C9_Witness ==
  /\ pc = "done"
  /\ frame.fn = "SCULPT_smooth"
  /\ ss.type = "PBVH_FACES"
  /\ ~ss.pmap
  /\ hist.asserted
  /\ frame.arg > 0

\* The value of the vertex the primitive fn averages around.
OwnValue(fn, index) ==
  CASE fn = "SCULPT_neighbor_mask_average" -> <<ss.mask[index]>>
    [] fn = "SCULPT_neighbor_color_average" -> ss.color[index]
    [] OTHER -> ss.co[index]

\* A result as a vector.
AsVector(fn, result) ==
  IF fn = "SCULPT_neighbor_mask_average" THEN <<result>> ELSE result

\* C10: each of the four averaging primitives, applied to a vertex without
\* neighbours, returns the vertex's own position, mask or colour, and no
\* component of the result comes from a division by zero.
C10_NoNeighborsIdentity ==
  (pc = "returned" /\ Len(ss.neighbors[frame.index]) = 0) =>
    /\ AsVector(frame.fn, frame.result) = OwnValue(frame.fn, frame.index)
    /\ \A k \in DOMAIN AsVector(frame.fn, frame.result) :
         AsVector(frame.fn, frame.result)[k] # NAN

\* The plain position average returned for a vertex without neighbours
\* that does not lie at the origin.
C10_Witness ==
  /\ pc = "returned"
  /\ frame.fn = "SCULPT_neighbor_coords_average"
  /\ Len(ss.neighbors[frame.index]) = 0
  /\ frame.result # zero_v3
  /\ ss.mask[frame.index] # 0

InteriorReturned ==
  pc = "returned" /\ frame.fn = "SCULPT_neighbor_coords_average_interior"

BoundaryNeighbors(index) ==
  {w \in Range(ss.neighbors[index]) : w \in ss.boundary}

\* The mean of the positions of all neighbours of index.
NeighborMean(index) ==
  recip_v(SumOver(ss.co, ss.neighbors[index], zero_v3), Len(ss.neighbors[index]))

\* C11: SCULPT_neighbor_coords_average_interior returns the vertex's own
\* position for every vertex with 2 or fewer neighbours, boundary or not,
\* whatever the boundary status of the neighbours.
C11_CornerIdentity ==
  (InteriorReturned /\ Len(ss.neighbors[frame.index]) <= 2) =>
    frame.result = ss.co[frame.index]

\* A boundary vertex with one or two neighbours, one of them boundary, whose
\* position is not the mean the filter would give.
C11_Witness ==
  /\ InteriorReturned
  /\ Len(ss.neighbors[frame.index]) \in {1, 2}
  /\ frame.index \in ss.boundary
  /\ BoundaryNeighbors(frame.index) # {}
  /\ frame.result # InteriorAverageNoCorner(ss, frame.index)

\* C12 as stated: a non-boundary vertex none of whose neighbours is boundary
\* gets back its own position.
C12_NonBoundaryIdentity ==
  (InteriorReturned /\ frame.index \notin ss.boundary
   /\ BoundaryNeighbors(frame.index) = {}) =>
    frame.result = ss.co[frame.index]

\* C12, amended: the filter is applied around boundary vertices.  A boundary
\* vertex none of whose neighbours is boundary gets back its own position;
\* a non-boundary vertex with more than 2 neighbours gets the mean of all
\* its neighbours, whatever their boundary status.
C12_BoundaryFilterIdentity ==
  InteriorReturned =>
    /\ (frame.index \in ss.boundary /\ BoundaryNeighbors(frame.index) = {}) =>
         frame.result = ss.co[frame.index]
    /\ (frame.index \notin ss.boundary /\ Len(ss.neighbors[frame.index]) > 2) =>
         frame.result = NeighborMean(frame.index)

\* A boundary vertex with more than 2 neighbours, none of them boundary,
\* that does not lie at the mean of its neighbours.
C12_Witness ==
  /\ InteriorReturned
  /\ frame.index \in ss.boundary
  /\ Len(ss.neighbors[frame.index]) > 2
  /\ BoundaryNeighbors(frame.index) = {}
  /\ ss.co[frame.index] # NeighborMean(frame.index)

FourNeighborReturned ==
  /\ pc = "returned"
  /\ frame.fn \in {"SCULPT_bmesh_four_neighbor_average",
                   "SCULPT_trimesh_four_neighbor_average"}

HasBoundaryEdge(v) == \E k \in DOMAIN v.edges : v.edges[k].boundary

\* The sum of the weights of the edges of v, fac written out per edge.
RECURSIVE TotalWeight(_, _, _)
TotalWeight(v, direction, k) ==
  IF k > Len(v.edges) THEN QInt(0)
  ELSE LET e == sub_v3_v3v3(v.edges[k].other, v.co)
           t == sub_v3_v3v3(e, mul_v3_v3fl(v.no, dot_v3v3(e, v.no)))
           w == QSub(NormalizedDotSquared(t, direction), Q(1, 2))
       IN QAdd(QMul(w, w), TotalWeight(v, direction, k + 1))

\* C13: the directional average of a vertex with a boundary edge among its
\* edges is the vertex's own position, wherever that edge stands in the
\* enumeration and whatever the other edges are.
C13_BoundaryShortCircuit ==
  (FourNeighborReturned /\ HasBoundaryEdge(frame.v)) => frame.avg = frame.v.co

\* The boundary edge comes second, after an edge that is not boundary.
C13_Witness ==
  /\ FourNeighborReturned
  /\ frame.fn = "SCULPT_bmesh_four_neighbor_average"
  /\ Len(frame.v.edges) >= 2
  /\ ~frame.v.edges[1].boundary
  /\ frame.v.edges[2].boundary
  /\ frame.avg # QVec(0, 0, 0)

\* C14: where the total weight over the edges of the vertex is zero (no
\* edge, or every weight zero) the directional average is the vertex's own
\* position.
C14_ZeroWeightIdentity ==
  (FourNeighborReturned /\ ~HasBoundaryEdge(frame.v)
   /\ TotalWeight(frame.v, frame.direction, 1).n = 0) =>
    frame.avg = frame.v.co

\* C15: with a unit normal, no boundary edge and a positive total weight,
\* the average less the vertex's position has no component along the normal.
C15_TangentDisplacement ==
  (FourNeighborReturned /\ ~HasBoundaryEdge(frame.v)
   /\ dot_v3v3(frame.v.no, frame.v.no) = QInt(1)
   /\ TotalWeight(frame.v, frame.direction, 1).n > 0) =>
    dot_v3v3(sub_v3_v3v3(frame.avg, frame.v.co), frame.v.no) = QInt(0)

\* The vertex is moved, and one of its edges leaves the tangent plane.
C15_Witness ==
  /\ FourNeighborReturned
  /\ ~HasBoundaryEdge(frame.v)
  /\ TotalWeight(frame.v, frame.direction, 1).n > 0
  /\ frame.avg # frame.v.co
  /\ \E k \in DOMAIN frame.v.edges :
       dot_v3v3(sub_v3_v3v3(frame.v.edges[k].other, frame.v.co),
                frame.v.no).n # 0

\* C18: on the same vertex, normal, direction and edges the two
\* implementations return the same average.
C18_SameAverage ==
  FourNeighborReturned =>
    frame.avg =
      IF frame.fn = "SCULPT_bmesh_four_neighbor_average"
      THEN SCULPT_trimesh_four_neighbor_average(frame.v, frame.direction)
      ELSE SCULPT_bmesh_four_neighbor_average(frame.v, frame.direction)

\* The trimesh implementation returned for a vertex without edges.
C18_Witness ==
  /\ FourNeighborReturned
  /\ frame.fn = "SCULPT_trimesh_four_neighbor_average"
  /\ frame.v.edges = <<>>
  /\ frame.v.co # QVec(0, 0, 0)

\* C20: on an interior vertex of a regular quad grid, the second
\* application of the directional average returns what the first returned,
\* for every direction.
C20_GridFixedPoint ==
  (FourNeighborReturned /\ frame.v.grid /\ Len(frame.results) = 2) =>
    frame.results[2] = frame.results[1]

\* The second application returned, the direction along neither grid axis.
C20_Witness ==
  /\ FourNeighborReturned
  /\ frame.v.grid
  /\ Len(frame.results) = 2
  /\ frame.direction = QVecOver(3, 4, 0, 5)
  /\ frame.v.no = QVec(0, 0, 1)
  /\ frame.results[2] # QVec(0, 0, 0)

FullPreservation == brush.surface_smooth_shape_preservation = Unit

\* The Laplacian kernel of node n handles vertex v in this step.
LaplacianHandles(n, v) ==
  /\ pc = "dispatch"
  /\ tasks[n].kernel = LaplacianKernel
  /\ tasks[n].st = "running"
  /\ v = Node(n)[tasks[n].vi]
  /\ tasks'[n].vi = tasks[n].vi + 1
  /\ SCULPT_brush_test(brush, ss.co[v])

\* C16 as stated: with alpha = 1.0 every position after a Laplacian pass is
\* what it was before the pass.
C16_LaplacianPassKeepsPositions ==
  (/\ frame.fn = "SCULPT_do_surface_smooth_brush"
   /\ FullPreservation
   /\ Len(hist.completed) = 1
   /\ hist.completed[1].kernel = LaplacianKernel) =>
    ss.co = hist.ss_in.co

\* C16, amended: with alpha = 1.0 the Laplacian kernel stores for a vertex
\* in reach laplacian_disp[v] = average(v) - original(v), the target d being
\* the original position exactly, and moves the vertex by
\* clamp(fade, 0, 1) * (average(v) - current(v)) all the same.
C16_AlphaOneTarget ==
  [][\A n \in DOMAIN tasks : \A v \in Verts :
       (LaplacianHandles(n, v) /\ FullPreservation) =>
         LET avg == SCULPT_neighbor_coords_average(ss, v)
             fade == FMul(ss.cache.bstrength,
                          SCULPT_brush_strength_factor(brush, ss.co[v],
                                                       MaskOrZero(ss, v)))
         IN /\ ss'.cache.surface_smooth_laplacian_disp[v] =
                 sub_v(avg, ss.orig_co[v])
            /\ ss'.co[v] = madd_v(ss.co[v], sub_v(avg, ss.co[v]),
                                  clamp_f(fade, 0, Unit))]_vars

\* A Laplacian pass with alpha = 1.0 of the second outer iteration has
\* returned, with a vertex away from its original position and a
\* correction vector stored for it.
C16_Witness ==
  /\ frame.fn = "SCULPT_do_surface_smooth_brush"
  /\ FullPreservation
  /\ Len(hist.completed) = 3
  /\ \E v \in Verts :
       /\ ss.co[v] # ss.orig_co[v]
       /\ ss.cache.surface_smooth_laplacian_disp[v] # zero_v3

Buffers == {"detail_directions", "surface_smooth_laplacian_disp"}

AllocsOf(buffer) ==
  {k \in DOMAIN hist.allocs : hist.allocs[k].buffer = buffer}

\* C17: over the brush steps of a stroke, the Laplacian-displacement buffer
\* and the detail-direction buffer are allocated only in the step flagged
\* as the first of the stroke, each at most once, so that a buffer is the
\* one allocated then until the stroke ends; the Laplacian buffer is NULL
\* just before it is allocated.
C17_BuffersAllocatedInFirstStep ==
  /\ \A k \in DOMAIN hist.allocs :
       /\ hist.allocs[k].first
       /\ hist.allocs[k].step = 1
       /\ hist.allocs[k].buffer = "surface_smooth_laplacian_disp" =>
            hist.allocs[k].was_null
  /\ \A b \in Buffers :
       /\ Cardinality(AllocsOf(b)) <= 1
       /\ (DOMAIN ss.cache[b] # {}) <=> (AllocsOf(b) # {})

\* A later step of the stroke ran the function that allocated in the first
\* step, and returned with the buffer of the first step.
C17_Witness ==
  /\ pc = "done"
  /\ hist.step > 1
  /\ Len(hist.allocs) = 1
  /\ hist.calls[Len(hist.calls)] \in {"SCULPT_enhance_details_brush",
                                      "SCULPT_do_surface_smooth_brush"}
  /\ DOMAIN ss.cache[hist.allocs[1].buffer] # {}

\* A stroke of two steps of SCULPT_do_smooth_brush on the single vertex v:
\* detail enhancement at strength -s, then smoothing at +s, s > 0, with a
\* detail direction that is not zero.
EnhanceThenSmooth(v) ==
  /\ pc = "done"
  /\ nodes = <<<<v>>>>
  /\ hist.calls = <<"SCULPT_do_smooth_brush", "SCULPT_enhance_details_brush",
                    "SCULPT_do_smooth_brush", "SCULPT_smooth">>
  /\ Len(hist.strengths) = 2
  /\ hist.strengths[2] > 0
  /\ hist.strengths[1] = 0 - hist.strengths[2]
  /\ ss.cache.detail_directions[v] # zero_v3

\* The squared distance of position co from the mean of v's neighbours.
DistanceFromMean(v, co) == len_squared_v(sub_v(co, NeighborMean(v)))

FirstPassDone ==
  /\ frame.fn = "SCULPT_smooth"
  /\ ~frame.smooth_mask
  /\ Len(hist.completed) = 1
  /\ (pc = "done" \/ \A n \in DOMAIN tasks : tasks[n].st = "pending")

\* The fade of vertex p in the first dispatch.
FirstPassFade(p) ==
  SmoothFade(CLAMP(hist.started[1].strength, 0, Unit),
             SCULPT_brush_strength_factor(brush, hist.ss_in.co[p],
                                          MaskOrZero(hist.ss_in, p)))

\* C21: on a flat mesh without boundary whose vertices lie in the plane
\* z = 0 but for one vertex p, one pass of the smoothing kernel in position
\* mode that reaches p with a fade that is not zero leaves p strictly closer
\* to the plane than it was before the pass, whatever the order in which
\* the node tasks ran.
C21_PerturbedMovesCloser ==
  \A p \in Verts :
    (/\ FirstPassDone
     /\ hist.ss_in.co[p][3] # 0
     /\ SCULPT_brush_test(brush, hist.ss_in.co[p])
     /\ FirstPassFade(p) > 0) =>
      Abs(ss.co[p][3]) < Abs(hist.ss_in.co[p][3])

\* The pass ran on two nodes with a fade below 1.0 for the lifted vertex,
\* which ends off the plane still, a neighbour of it pulled off the plane
\* too.
C21_Witness ==
  /\ FirstPassDone
  /\ totnode = 2
  /\ \E p, w \in Verts :
       /\ hist.ss_in.co[p][3] # 0
       /\ FirstPassFade(p) > 0
       /\ FirstPassFade(p) < Unit
       /\ ss.co[p][3] # 0
       /\ w # p
       /\ ss.co[w][3] # 0

\* Coordinate i of every vertex.
Coord(i) == [w \in Verts |-> ss.co[w][i]]

\* Coordinate i of the plain mean of the positions of v's neighbours; the
\* position of v itself where it has none.
PlainMean(v, i) ==
  IF Len(ss.neighbors[v]) = 0 THEN ss.co[v][i]
  ELSE SumScalar(Coord(i), ss.neighbors[v]) \div Len(ss.neighbors[v])

\* The falloff strength of v in a kernel of the surface brush, clamped.
ClampedFade(v) ==
  CLAMP((ss.cache.bstrength
         * SCULPT_brush_strength_factor(brush, ss.co[v], MaskOrZero(ss, v)))
        \div Unit, 0, Unit)

\* C22: the Laplacian kernel, for a vertex v in reach of the brush, stores
\* laplacian_disp[v] = avg(v) - (alpha * orig(v) + (1 - alpha) * cur(v)),
\* avg the plain mean of the neighbours' positions, and moves v by
\* (avg(v) - cur(v)) scaled by the falloff strength clamped to [0,1].
C22_LaplacianPredict ==
  [][\A n \in DOMAIN tasks : \A v \in Verts :
       LaplacianHandles(n, v) =>
         LET alpha == brush.surface_smooth_shape_preservation
         IN \A i \in 1 .. 3 :
              /\ ss'.cache.surface_smooth_laplacian_disp[v][i] =
                   PlainMean(v, i)
                   - ((ss.orig_co[v][i] * alpha) \div Unit
                      + (ss.co[v][i] * (Unit - alpha)) \div Unit)
              /\ ss'.co[v][i] =
                   ss.co[v][i]
                   + ((PlainMean(v, i) - ss.co[v][i]) * ClampedFade(v))
                     \div Unit]_vars

\* A Laplacian pass with alpha = 0.5 of the second outer iteration has
\* stored a correction vector for a vertex that had left its original
\* position, off both the correction for alpha = 0 and that for alpha = 1.
C22_Witness ==
  /\ frame.fn = "SCULPT_do_surface_smooth_brush"
  /\ brush.surface_smooth_shape_preservation = Unit \div 2
  /\ frame.i = 1
  /\ Current.kernel = LaplacianKernel
  /\ \E v \in Verts :
       /\ hist.writers[v] # {}
       /\ ss.cache.surface_smooth_laplacian_disp[v] # zero_v3
       /\ ss.co[v] # ss.orig_co[v]

\* The displacement kernel of node n handles vertex v in this step.
DisplaceHandles(n, v) ==
  /\ pc = "dispatch"
  /\ tasks[n].kernel = DisplaceKernel
  /\ tasks[n].st = "running"
  /\ v = Node(n)[tasks[n].vi]
  /\ tasks'[n].vi = tasks[n].vi + 1
  /\ SCULPT_brush_test(brush, ss.co[v])

\* Coordinate i of every entry of laplacian_disp.
DispCoord(i) ==
  [w \in Verts |-> ss.cache.surface_smooth_laplacian_disp[w][i]]

\* C23: the displacement kernel, for a vertex v in reach with N > 0
\* neighbours, stores cur(v) - clamp(fade, 0, 1) * (beta * laplacian_disp[v]
\* + (1 - beta) / N * the sum of laplacian_disp over the neighbours); a
\* vertex without neighbours keeps its position; laplacian_disp is not
\* written.
C23_DisplaceDamping ==
  [][\A n \in DOMAIN tasks : \A v \in Verts :
       DisplaceHandles(n, v) =>
         LET beta == brush.surface_smooth_current_vertex
             N == Len(ss.neighbors[v])
         IN /\ ss'.cache.surface_smooth_laplacian_disp =
                 ss.cache.surface_smooth_laplacian_disp
            /\ N = 0 => ss'.co[v] = ss.co[v]
            /\ N > 0 =>
                 \A i \in 1 .. 3 :
                   ss'.co[v][i] =
                     ss.co[v][i]
                     - (((SumScalar(DispCoord(i), ss.neighbors[v]) * (Unit - beta))
                           \div (Unit * N)
                         + (DispCoord(i)[v] * beta) \div Unit)
                        * ClampedFade(v)) \div Unit]_vars

\* A displacement pass with beta = 0.5 on a mesh whose vertex 0 has no
\* neighbour: the kernel has handled vertex 0 and a vertex that has
\* neighbours and a correction vector.
C23_Witness ==
  /\ frame.fn = "SCULPT_do_surface_smooth_brush"
  /\ brush.surface_smooth_current_vertex = Unit \div 2
  /\ Current.kernel = DisplaceKernel
  /\ Len(ss.neighbors[0]) = 0
  /\ hist.writers[0] # {}
  /\ \E v \in Verts :
       /\ Len(ss.neighbors[v]) > 0
       /\ hist.writers[v] # {}
       /\ ss.cache.surface_smooth_laplacian_disp[v] # zero_v3
       /\ ss.co[v] # ss.orig_co[v]

\* The session with other contents in laplacian_disp.
OtherDisp(s) ==
  [s EXCEPT !.cache.surface_smooth_laplacian_disp =
     [w \in Verts |-> <<1 + w, 2, 3>>]]

\* C24: a step of a Laplacian task of node n, on vertex v, stores the same
\* position and the same laplacian_disp[v] whatever laplacian_disp held
\* before (the buffer is not read); v is a vertex of node n, and the
\* positions and laplacian_disp entries of every other vertex, and every
\* mask value, are left as they were.
C24_LaplacianPassFrame ==
  [][\A n \in DOMAIN tasks : \A v \in Verts :
       LaplacianHandles(n, v) =>
         LET blind == surface_smooth_laplacian_vertex(OtherDisp(ss), brush,
                                                      frame, v).ss
         IN /\ v \in Range(Node(n))
            /\ ss'.co[v] = blind.co[v]
            /\ ss'.cache.surface_smooth_laplacian_disp[v] =
                 blind.cache.surface_smooth_laplacian_disp[v]
            /\ \A w \in Verts \ {v} :
                 /\ ss'.co[w] = ss.co[w]
                 /\ ss'.cache.surface_smooth_laplacian_disp[w] =
                      ss.cache.surface_smooth_laplacian_disp[w]
            /\ ss'.mask = ss.mask]_vars

\* Two Laplacian tasks of the second outer iteration are running, each
\* has stored to a vertex of its own, and a vertex not handled yet holds
\* the correction vector of the first iteration.
C24_Witness ==
  /\ InDispatch
  /\ frame.fn = "SCULPT_do_surface_smooth_brush"
  /\ Current.kernel = LaplacianKernel
  /\ frame.i = 1
  /\ totnode = 2
  /\ \A n \in DOMAIN tasks : tasks[n].st = "running"
  /\ \E v, w, u \in Verts :
       /\ hist.writers[v] = {0}
       /\ hist.writers[w] = {1}
       /\ hist.writers[u] = {}
       /\ ss.cache.surface_smooth_laplacian_disp[u] # zero_v3

\* Coordinate k of every vertex at the start of the stroke.
StartCoord(k) == [w \in Verts |-> ss.orig_co[w][k]]

\* Coordinate k of the plain neighbour average of i at the start of the
\* stroke, less that of i's position then.
StartDirection(i, k) ==
  (IF Len(ss.neighbors[i]) = 0 THEN ss.orig_co[i][k]
   ELSE SumScalar(StartCoord(k), ss.neighbors[i]) \div Len(ss.neighbors[i]))
  - ss.orig_co[i][k]

\* C25: the detail-direction buffer is filled in the first brush step of
\* the stroke only; once filled it holds, for every vertex i, the plain
\* neighbour average of i less the position of i, both taken from the
\* positions before any kernel moved a vertex, and it holds that through
\* every kernel and every later brush step of the stroke.
C25_DetailDirectionsFixed ==
  /\ \A k \in AllocsOf("detail_directions") : hist.allocs[k].step = 1
  /\ DOMAIN ss.cache.detail_directions # {} =>
       /\ DOMAIN ss.cache.detail_directions = Verts
       /\ \A i \in Verts : \A k \in 1 .. 3 :
            ss.cache.detail_directions[i][k] = StartDirection(i, k)

\* The second brush step of a stroke of two detail enhancements has
\* returned, with a vertex moved off its starting position.
C25_Witness ==
  /\ pc = "done"
  /\ hist.step = 2
  /\ hist.calls = <<"SCULPT_do_smooth_brush", "SCULPT_enhance_details_brush",
                    "SCULPT_do_smooth_brush", "SCULPT_enhance_details_brush">>
  /\ \E v \in Verts :
       /\ ss.cache.detail_directions[v] # zero_v3
       /\ ss.co[v] # ss.orig_co[v]
       /\ hist.ss_in.co[v] # ss.orig_co[v]

\* C26: over the brush steps of a stroke driven through
\* SCULPT_do_smooth_brush, whatever the sign of the strength in each step,
\* the detail-enhancement kernel is never run with the detail-direction
\* buffer unallocated: no step of it dereferences the NULL buffer.
C26_EnhanceKernelHasBuffer ==
  /\ ~(pc = "crashed" /\ frame.fn = "SCULPT_enhance_details_brush")
  /\ (InDispatch /\ Current.kernel = "do_enhance_details_brush_task_cb_ex") =>
       DOMAIN ss.cache.detail_directions # {}

\* C27: SCULPT_smooth in mask mode on a mesh whose vertices have no mask
\* never dereferences the absent mask: the kernel reads and writes a mask
\* value only where the vertex has one.
C27_MaskGuarded ==
  (frame.fn = "SCULPT_smooth" /\ frame.smooth_mask /\ ~ss.vmask) =>
    (pc # "crashed" /\ ~hist.null_deref)

\* C28: during and after SCULPT_smooth in mask mode every position is what
\* it was at the call and every mask value of a vertex the kernel stored to
\* lies in [0,1]; in position mode every mask value is what it was at the
\* call.
C28_ModeSeparation ==
  frame.fn = "SCULPT_smooth" =>
    IF frame.smooth_mask
    THEN /\ ss.co = hist.ss_in.co
         /\ \A v \in ss.update : 0 <= ss.mask[v] /\ ss.mask[v] <= Unit
    ELSE ss.mask = hist.ss_in.mask

\* A call in mask mode returned with a mask value changed, off both ends
\* of [0,1].
C28_Witness ==
  /\ pc = "done"
  /\ SmoothRan
  /\ frame.smooth_mask
  /\ totnode = 2
  /\ \E v \in ss.update :
       /\ ss.mask[v] # hist.ss_in.mask[v]
       /\ 0 < ss.mask[v] /\ ss.mask[v] < Unit

\* A call in position mode returned with a position changed, on a mesh
\* whose mask values differ from one another.
C28_WitnessPosition ==
  /\ pc = "done"
  /\ SmoothRan
  /\ ~frame.smooth_mask
  /\ ss.vmask
  /\ ss.co # hist.ss_in.co

\* The task of node n is at vertex v, which fails the brush test.
AtVertexOutOfReach(n, v) ==
  /\ pc = "dispatch"
  /\ tasks[n].st = "running"
  /\ v = Node(n)[tasks[n].vi]
  /\ ~SCULPT_brush_test(brush, ss.co[v])

\* C29: the step of a kernel (smoothing, detail enhancement, Laplacian or
\* displacement) on a vertex that fails the brush test changes neither the
\* vertex's position, its mask, its update flag nor its laplacian_disp
\* entry: it leaves the whole session as it is and goes on to the next
\* vertex.
C29_OutOfReachUntouched ==
  [][\A n \in DOMAIN tasks : \A v \in Verts :
       (AtVertexOutOfReach(n, v) /\ tasks'[n] # tasks[n]) =>
         /\ ss' = ss
         /\ pc' = "dispatch"
         /\ hist'.writers = hist.writers
         /\ tasks'[n].vi = tasks[n].vi + 1]_vars

\* A displacement task has finished a node in which it skipped a vertex
\* out of reach and moved another.
C29_Witness ==
  /\ InDispatch
  /\ Current.kernel = DisplaceKernel
  /\ \E n \in DOMAIN tasks : \E v, w \in Range(Node(n)) :
       /\ tasks[n].st = "done"
       /\ ~SCULPT_brush_test(brush, ss.co[v])
       /\ hist.writers[v] = {}
       /\ v \notin ss.update
       /\ hist.writers[w] # {}

\* A displacement pass has run all its tasks and has not returned yet.
DisplacePassRun ==
  /\ InDispatch
  /\ frame.fn = "SCULPT_do_surface_smooth_brush"
  /\ Current.kernel = DisplaceKernel
  /\ AllDone

\* C30: when every task of a displacement pass has run, the positions, the
\* masks and laplacian_disp are those of the run that takes the nodes one
\* after the other in index order from the state at the start of the pass,
\* whatever the order and interleaving of the tasks; laplacian_disp is what
\* it was at the start of the pass.
C30_DisplaceScheduleIndependent ==
  DisplacePassRun =>
    LET ref == RunNodes(DisplaceKernel, hist.pass_in, brush, frame, 0)
    IN /\ ss.co = ref.co
       /\ ss.mask = ref.mask
       /\ ss.cache.surface_smooth_laplacian_disp =
            hist.pass_in.cache.surface_smooth_laplacian_disp

\* A displacement pass over two nodes has moved a vertex of each node.
C30_Witness ==
  /\ DisplacePassRun
  /\ totnode = 2
  /\ \E v \in Range(Node(0)), w \in Range(Node(1)) :
       /\ ss.co[v] # hist.pass_in.co[v]
       /\ ss.co[w] # hist.pass_in.co[w]

====
